---- MODULE Spec2Model ----
(***************************************************************************)
(* A model of stock_analysis: the EMA indicator (indicator.py) and the     *)
(* momentum strategy with its worker pool (unit_strategy.py).              *)
(*                                                                         *)
(* Three specifications share the module:                                  *)
(*   SpecEma  - Indicator._exponential_moving_avarage as a pure function   *)
(*   SpecInd  - Indicator.ema_indicator, the sequential per-company loop   *)
(*   Spec     - UnitStrategy.momentum_strategy (pool fan-out, dropna,      *)
(*              sort, head) and momentum_with_ema_strategy on top of it    *)
(*                                                                         *)
(* Python floats are modelled in fixed point: a price p is the integer     *)
(* p * Scale, and a product is divided by Scale, truncating.  Yearly       *)
(* returns, which the ranking compares, are kept as exact fractions.       *)
(***************************************************************************)
EXTENDS Integers, Sequences, FiniteSets, TLC

VARIABLES
    \* ---- _exponential_moving_avarage (SpecEma)
    data,               \* the series passed in, a sequence of closes
    period,             \* the period argument
    smoothing_factor,   \* the smoothing_factor argument
    ema_call,           \* Pending, or the outcome of the call
    \* ---- ema_indicator (SpecInd)
    ind_company,        \* self.data['company']
    ind_provider,       \* company -> what single_company_complete answers
    ind_pc,             \* "loop" | "done" | "aborted" ("idle" elsewhere)
    ind_idx,            \* enumerate index of the next company (0-based)
    ema_indicator_df,   \* rows appended so far
    invalid,            \* companies whose EMA raised
    ind_exc,            \* the exception that left ema_indicator, or "None"
    \* ---- momentum_strategy (Spec)
    company,            \* self.data['company']
    provider,           \* company -> what single_company_specific answers
    pc,                 \* "start" | "pool" | "done" | "aborted" | "ema_aborted"
    cpu_count,          \* multiprocessing.cpu_count()
    top_company_count,  \* the top_company_count argument
    taskq,              \* the pool's task queue: chunk numbers, FIFO
    processes,          \* the size the pool was created with, 0 before
    running,            \* the chunks the pool's workers are running
    value,              \* MapResult._value: position -> Empty or a record
    failure,            \* MapResult: the first exception stored, or "None"
    completed,          \* chunk numbers in the order the workers finished
    momentum_df,        \* the frame after dropna and sort_values
    momentum_out,       \* momentum_df.head(top_company_count)
    exc                 \* the exception that left the strategy, or "None"

emaVars == <<data, period, smoothing_factor, ema_call>>
indVars == <<ind_company, ind_provider, ind_pc, ind_idx, ema_indicator_df,
             invalid, ind_exc>>
momVars == <<company, provider, pc, cpu_count, top_company_count, taskq,
             processes, running, value, failure, completed, momentum_df, momentum_out,
             exc>>
vars == <<emaVars, indVars, momVars>>

-----------------------------------------------------------------------------
(* Bounds of the model *)

\* longest series handed to _exponential_moving_avarage in SpecEma
MaxLen == 54
\* largest period tried in SpecEma
MaxPeriod == 3
\* one period beyond the recurrence's offset, tried in SpecEma as well
LongPeriod == 52
\* largest smoothing_factor tried in SpecEma
MaxSmoothing == 2
\* fixed-point denominator standing for a float's fraction
Scale == 1000

\* the offset the recurrence adds to idx (indicator.py:118-119)
Offset == 50

\* the call has not been made yet
Pending == [raised |-> "pending", val |-> 0, reads |-> {}]
Min(a, b) == IF a < b THEN a ELSE b

-----------------------------------------------------------------------------
(* Series *)

\* A synthetic close series of length n: rising, falling or saw-tooth.
\* Closes are small positive integers.
Close(pattern, n, i) ==
    CASE pattern = "up"   -> 1 + ((3 * i) \div (n + 1))
      [] pattern = "down" -> 4 - ((3 * i) \div (n + 1))
      [] OTHER            -> 1 + (i % 3)

Series(pattern, n) == [i \in 1..n |-> Close(pattern, n, i)]

Patterns == {"up", "down", "saw"}

\* Python's 0-based data[i]
At(s, i) == s[i + 1]

\* s[lo] + ... + s[hi], summed by halves
RECURSIVE SumRange(_, _, _)
SumRange(s, lo, hi) ==
    IF lo > hi THEN 0
    ELSE IF lo = hi THEN s[lo]
    ELSE LET mid == (lo + hi) \div 2
         IN  SumRange(s, lo, mid) + SumRange(s, mid + 1, hi)

\* sum(data[:n]): the slice stops at the end of a shorter series
SumPrefix(s, n) == SumRange(s, 1, Min(n, Len(s)))

-----------------------------------------------------------------------------
(* Indicator._exponential_moving_avarage                                   *)

\* mf = smoothing_factor / (1 + period), in fixed point
MultiplyingFactor(s, p) == (s * Scale) \div (1 + p)

\* sma0 = sum(data[:period]) / period, in fixed point
Sma0(d, p) == (SumPrefix(d, p) * Scale) \div p

\* ema = (x * mf) + (ema_pre * (1 - mf)), x a close, the rest fixed point
EmaStep(x, mf, ema_pre) == ((x * Scale * mf) + (ema_pre * (Scale - mf))) \div Scale

\* the series position one pass of the loop reads: data[idx + 50]
ReadIndex(idx) == idx + Offset

\* a range that would advance idx by 50
RangeIdxStride(k) == 1 + ((k - 1) * Offset)
\* the k-th value of idx in `for idx in range(1, len(data) - 50)`
RangeIdx(k) == k

\* how many passes the loop makes over a series of n closes
NumPasses(n) == Cardinality({k \in 1..n : RangeIdx(k) < n - Offset})

\* the passes lo..hi of the loop, in order, starting from pre = [val, reads]:
\* each pass is ema = data[idx + 50] * mf + ema_pre * (1 - mf); ema_pre = ema,
\* and adds the position it read to reads.
\* (The range is split in halves only to keep the evaluation shallow.)
RECURSIVE Passes(_, _, _, _, _)
Passes(d, mf, lo, hi, pre) ==
    IF lo > hi THEN pre
    ELSE IF lo = hi
    THEN LET r == ReadIndex(RangeIdx(lo))
         IN  [val |-> EmaStep(At(d, r), mf, pre.val), reads |-> pre.reads \cup {r}]
    ELSE LET mid  == (lo + hi) \div 2
             left == Passes(d, mf, lo, mid, pre)
         IN  \* the test makes TLC compute the earlier passes first
             IF left = left THEN Passes(d, mf, mid + 1, hi, left) ELSE left

\* the loop: `ema` is [bound, val], the local variable that stays unbound
\* until a pass assigns it; reads are the positions the passes read
EmaLoop(d, mf, ema0) ==
    LET n    == NumPasses(Len(d))
        last == Passes(d, mf, 1, n, [val |-> ema0, reads |-> {}])
    IN  [ema   |-> IF n = 0 THEN [bound |-> FALSE, val |-> 0]
                   ELSE [bound |-> TRUE, val |-> last.val],
         reads |-> last.reads]

\* return ema: UnboundLocalError when no pass of the loop assigned it
ReturnEma(loop) ==
    IF loop.ema.bound
    THEN [raised |-> "None", val |-> loop.ema.val, reads |-> loop.reads]
    ELSE [raised |-> "UnboundLocalError", val |-> 0, reads |-> loop.reads]

\* The whole function.  data[period] raises IndexError (KeyError on a
\* label-indexed Series) when the series has no position `period`.
exponential_moving_avarage(d, p, s) ==
    IF p >= Len(d)
    THEN [raised |-> "IndexError", val |-> 0, reads |-> {}]
    ELSE LET mf   == MultiplyingFactor(s, p)
             ema0 == EmaStep(At(d, p), mf, Sma0(d, p))
         IN  ReturnEma(EmaLoop(d, mf, ema0))

-----------------------------------------------------------------------------
(* SpecEma: the function applied to every bounded input *)

InitEmaIdle ==
    /\ data = <<>>
    /\ period = 1
    /\ smoothing_factor = 2
    /\ ema_call = Pending

InitIndIdle ==
    /\ ind_company = <<>>
    /\ ind_provider = <<>>
    /\ ind_pc = "idle"
    /\ ind_idx = 0
    /\ ema_indicator_df = <<>>
    /\ invalid = <<>>
    /\ ind_exc = "None"

InitMomIdle ==
    /\ company = <<>>
    /\ provider = <<>>
    /\ pc = "idle"
    /\ cpu_count = 0
    /\ top_company_count = 0
    /\ taskq = <<>>
    /\ processes = 0
    /\ running = {}
    /\ value = <<>>
    /\ failure = "None"
    /\ completed = <<>>
    /\ momentum_df = <<>>
    /\ momentum_out = <<>>
    /\ exc = "None"

InitEma ==
    /\ \E n \in 0..MaxLen, pat \in Patterns : data = Series(pat, n)
    /\ period \in (1..MaxPeriod) \cup {LongPeriod}
    /\ smoothing_factor \in 1..MaxSmoothing
    /\ ema_call = Pending
    /\ InitIndIdle
    /\ InitMomIdle

EmaCall ==
    /\ ema_call.raised = "pending"
    /\ ema_call' = exponential_moving_avarage(data, period, smoothing_factor)
    /\ UNCHANGED <<data, period, smoothing_factor, indVars, momVars>>

NextEma == EmaCall

SpecEma == InitEma /\ [][NextEma]_vars

\* C3: the call fails if and only if the series is not longer than the
\* period (len(series) <= period); every longer series gets a value.
C3_FailsIffTooShort ==
    ema_call.raised # "pending" =>
        ((ema_call.raised # "None") <=> (Len(data) <= period))

\* C10 as stated: the positions the recurrence reads are 50 apart, so no
\* two of them are consecutive.
C10_ReadsFiftyApart ==
    ema_call.raised # "pending" =>
        \A i \in ema_call.reads : (i + 1) \notin ema_call.reads

\* C10 amended: once the seed is computed, the recurrence advances one
\* position at a time at a fixed offset of 50: it reads every position from
\* 51 to the last one, whatever the period.
C10_ReadsEveryPositionFrom51 ==
    ema_call.raised \notin {"pending", "IndexError"} =>
        ema_call.reads = (Offset + 1)..(Len(data) - 1)

\* a call that returned after at least three passes of the recurrence
C10_Witness ==
    /\ ema_call.raised = "None"
    /\ Cardinality(ema_call.reads) >= 3

-----------------------------------------------------------------------------
(* Indicator.ema_indicator                                                 *)

Names == {"AAA", "BBB", "CCC"}

\* company names in ascending (alphabetical) order
NameRank(c) == CASE c = "AAA" -> 1 [] c = "BBB" -> 2 [] OTHER -> 3

\* most companies in the list ema_indicator walks (SpecInd)
MaxIndCompanies == 2

\* What DataRetrive.single_company_complete answers for a ticker: the
\* provider fails (NotFound), or a full history of closes, some of them
\* possibly missing.
IndResponses == {"NotFound", "Len51", "Len120", "LongUp", "LongDown", "LongNulls"}

\* the Close column of the fetched frame
IndCloses(resp) ==
    CASE resp = "Len51"    -> Series("saw", 51)
      [] resp = "Len120"   -> Series("saw", 120)
      [] resp = "LongUp"   -> Series("up", 210)
      [] resp = "LongDown" -> Series("down", 210)
      [] resp = "LongNulls" ->
             [i \in 1..212 |-> IF i \in {7, 100} THEN -1
                               ELSE Close("up", 212, i)]
      [] OTHER -> <<>>

\* a missing close (NaN) is written as a negative number
IsNa(x) == x < 0

\* company_df.dropna(inplace=True)
NotNa(x) == ~IsNa(x)
DropNaCloses(s) == SelectSeq(s, NotNa)

\* the body of the try block for one company: the row to append, or the
\* exception the except clause catches
EmaRow(c, closes) ==
    LET ema50 == exponential_moving_avarage(closes, 50, 2)
    IN  IF ema50.raised # "None" THEN [raised |-> ema50.raised]
        ELSE LET ema200 == exponential_moving_avarage(closes, 200, 2)
             IN  IF ema200.raised # "None" THEN [raised |-> ema200.raised]
                 ELSE [raised |-> "None",
                       row |-> [company |-> c,
                                ema50 |-> ema50.val,
                                ema200 |-> ema200.val,
                                action |-> IF ema50.val > ema200.val
                                           THEN "buy" ELSE "sell"]]

InitInd ==
    /\ InitEmaIdle
    /\ InitMomIdle
    /\ \E n \in 0..MaxIndCompanies : ind_company \in [1..n -> Names]
    /\ ind_provider \in [Names -> IndResponses]
    /\ \A c \in Names :
           (\A i \in 1..Len(ind_company) : ind_company[i] # c)
               => ind_provider[c] = "NotFound"
    /\ ind_pc = "loop"
    /\ ind_idx = 0
    /\ ema_indicator_df = <<>>
    /\ invalid = <<>>
    /\ ind_exc = "None"

\* one pass of `for idx, company in enumerate(self.data['company'])`
IndPass ==
    /\ ind_pc = "loop"
    /\ ind_idx < Len(ind_company)
    /\ LET c    == ind_company[ind_idx + 1]
           resp == ind_provider[c]
       IN  IF resp = "NotFound"
           THEN \* the fetch (indicator.py:58) is outside the try block
                /\ ind_pc' = "aborted"
                /\ ind_exc' = "NotFound"
                /\ UNCHANGED <<ind_idx, invalid, ema_indicator_df>>
           ELSE LET r == EmaRow(c, DropNaCloses(IndCloses(resp)))
                IN  /\ IF r.raised = "None"
                       THEN /\ ema_indicator_df' = Append(ema_indicator_df, r.row)
                            /\ UNCHANGED invalid
                       ELSE /\ invalid' = Append(invalid, c)
                            /\ UNCHANGED ema_indicator_df
                    /\ ind_idx' = ind_idx + 1
                    /\ UNCHANGED <<ind_pc, ind_exc>>
    /\ UNCHANGED <<ind_company, ind_provider, emaVars, momVars>>

\* the loop is over: ema_indicator_df.to_csv(...)
IndSave ==
    /\ ind_pc = "loop"
    /\ ind_idx = Len(ind_company)
    /\ ind_pc' = "done"
    /\ UNCHANGED <<ind_company, ind_provider, ind_idx, ema_indicator_df,
                   invalid, ind_exc, emaVars, momVars>>

NextInd == IndPass \/ IndSave

SpecInd == InitInd /\ [][NextInd]_vars

\* how often company c occurs in a sequence of names
Count(seq, c) == Cardinality({i \in 1..Len(seq) : seq[i] = c})
TableCompanies(df) == [i \in 1..Len(df) |-> df[i].company]

\* C8: ema_indicator never stops part-way, and once it is done every
\* supplied company is in exactly one of the EMA table and the invalid
\* list, as often as it was supplied.
C8_EveryCompanyPlaced ==
    /\ ind_pc # "aborted"
    /\ ind_pc = "done" =>
           \A c \in Names :
               /\ Count(TableCompanies(ema_indicator_df), c) + Count(invalid, c)
                      = Count(ind_company, c)
               /\ Count(TableCompanies(ema_indicator_df), c) = 0
                      \/ Count(invalid, c) = 0

-----------------------------------------------------------------------------
(* UnitStrategy._parallel_momentum                                         *)

\* most companies in self.data['company'] (Spec)
MaxCompanies == 3
\* largest multiprocessing.cpu_count() tried
MaxCpu == 3
\* largest top_company_count tried
MaxTop == 2

\* company_df.iloc[-30]: the trailing lookback (unit_strategy.py:214)
Lookback == 30

\* What DataRetrive.single_company_specific answers for a ticker over the
\* one-year window: the provider fails (NotFound, raised as a KeyError), a
\* frame too short for the lookback, a frame whose first close is 0, or a
\* usable frame whose close goes from 1 to 2 or from 1 to 4.
Responses == {"NotFound", "Short", "ZeroStart", "Up1", "Up3"}

\* a frame of n rows (Date, Close) on consecutive days
FrameOf(n, first, last) ==
    [i \in 1..n |-> [Date  |-> i,
                     Close |-> IF i = 1 THEN first
                               ELSE IF i = n THEN last ELSE 1]]

Frame(resp) ==
    CASE resp = "Short"     -> FrameOf(29, 1, 2)
      [] resp = "ZeroStart" -> FrameOf(31, 0, 2)
      [] resp = "Up1"       -> FrameOf(31, 1, 2)
      [] resp = "Up3"       -> FrameOf(31, 1, 4)
      [] OTHER              -> <<>>

\* pd.NA in a return column
NaReturn == [na |-> TRUE, num |-> 0, den |-> 1]
NaMonthly == [na |-> TRUE, end |-> 0, start |-> 0, days |-> 0]

\* annualized_rate_of_return: (end / start) ^ (1 / duration) - 1 raises
\* ZeroDivisionError on a zero start price or a zero duration
AnnualizedFails(start, duration) == start = 0 \/ duration = 0

\* over a duration of 1 the rate is (end - start) / start, kept as a fraction
YearlyReturn(end, start) == [na |-> FALSE, num |-> end - start, den |-> start]

\* over another duration the rate is kept as its arguments
MonthlyReturn(end, start, days) ==
    [na |-> FALSE, end |-> end, start |-> start, days |-> days]

\* get_appropriate_date_momentum: the (date, close) the monthly return
\* starts from: the point 30 rows before the end, or the earliest row of a
\* shorter frame
MonthlyAnchor(f) ==
    IF Len(f) >= Lookback THEN f[Len(f) - Lookback + 1] ELSE f[1]

\* except (IndexError, KeyError, ValueError)
Caught == {"IndexError", "KeyError", "ValueError"}

\* the try block: the exception it raises, or the values it computes
TryBlock(c, resp) ==
    IF resp = "NotFound" THEN [raised |-> "KeyError"]
    ELSE LET f == Frame(resp)
             n == Len(f)
         IN  IF n = 0 THEN [raised |-> "IndexError"]
             ELSE IF AnnualizedFails(f[1].Close, 1)
             THEN [raised |-> "ZeroDivisionError"]
             ELSE IF n < Lookback THEN [raised |-> "IndexError"]
             ELSE LET anchor == MonthlyAnchor(f)
                      days   == f[n].Date - f[n - Lookback + 1].Date
                  IN  IF AnnualizedFails(anchor.Close, days)
                      THEN [raised |-> "ZeroDivisionError"]
                      ELSE [raised |-> "None",
                            frame |-> f,
                            ar_yearly |-> YearlyReturn(f[n].Close, f[1].Close),
                            ar_monthly |-> MonthlyReturn(f[n].Close, anchor.Close, days),
                            monthly_start_date |-> anchor.Date]

\* the record built from the sentinel frame of the except clause: 30 rows
\* dated 1000-01-01 (day 0 here) with pd.NA closes, and pd.NA returns
Unusable(c) ==
    [company |-> c,
     yearly_start_date |-> 0,  yearly_start_date_close |-> -1,
     yearly_end_date |-> 0,    yearly_end_date_close |-> -1,
     return_yearly |-> NaReturn,
     monthly_start_date |-> -1, monthly_start_date_close |-> -1,
     monthly_end_date |-> 0,   monthly_end_date_close |-> -1,
     return_monthly |-> NaMonthly]

\* the record built when the try block went through
Usable(c, t) ==
    LET f == t.frame
        n == Len(f)
    IN  [company |-> c,
         yearly_start_date |-> f[1].Date,
         yearly_start_date_close |-> f[1].Close,
         yearly_end_date |-> f[n].Date,
         yearly_end_date_close |-> f[n].Close,
         return_yearly |-> t.ar_yearly,
         monthly_start_date |-> t.monthly_start_date,
         monthly_start_date_close |-> f[n - Lookback + 1].Close,
         monthly_end_date |-> f[n].Date,
         monthly_end_date_close |-> f[n].Close,
         return_monthly |-> t.ar_monthly]

\* _parallel_momentum for one company: the record it returns, or the
\* exception that leaves it
parallel_momentum(c, resp) ==
    LET t == TryBlock(c, resp)
    IN  IF t.raised = "None" THEN [raised |-> "None", rec |-> Usable(c, t)]
        ELSE IF t.raised \in Caught
        THEN [raised |-> "None", rec |-> Unusable(c)]
        ELSE [raised |-> t.raised]

-----------------------------------------------------------------------------
(* The frame operations of momentum_strategy                               *)

\* a row with pd.NA / NaN in some column
HasNa(r) ==
    \/ r.return_yearly.na \/ r.return_monthly.na
    \/ IsNa(r.yearly_start_date_close) \/ IsNa(r.yearly_end_date_close)
    \/ IsNa(r.monthly_start_date_close) \/ IsNa(r.monthly_end_date_close)
    \/ IsNa(r.monthly_start_date)

NoNa(r) == ~HasNa(r)

\* a frame that keeps every row
DropNaKeepAll(df) == df
\* momentum_df.dropna(inplace=True)
DropNa(df) == SelectSeq(df, NoNa)

\* a / b > c / d for positive denominators
GreaterReturn(x, y) == x.num * y.den > y.num * x.den

\* row a sorts strictly before row b: a larger return_yearly, NA last
SortsBefore(a, b) ==
    IF a.return_yearly.na THEN FALSE
    ELSE IF b.return_yearly.na THEN TRUE
    ELSE GreaterReturn(a.return_yearly, b.return_yearly)

\* x put into a sorted frame behind every row it does not sort before
RECURSIVE Insert(_, _)
Insert(s, x) ==
    IF s = <<>> THEN <<x>>
    ELSE IF SortsBefore(x, Head(s)) THEN <<x>> \o s
    ELSE <<Head(s)>> \o Insert(Tail(s), x)

RECURSIVE SortFrom(_, _)
SortFrom(sorted, rest) ==
    IF rest = <<>> THEN sorted
    ELSE SortFrom(Insert(sorted, Head(rest)), Tail(rest))

\* sort_values(by=['return_yearly'], ascending=False): rows of equal return
\* keep the order they came in (numpy sorts a run of up to 16 elements by
\* insertion, and pandas reverses the column before and after the sort)
SortValues(df) == SortFrom(<<>>, df)

\* df.head(n), n >= 0
HeadRows(df, n) == SubSeq(df, 1, Min(n, Len(df)))

-----------------------------------------------------------------------------
(* multiprocessing.Pool as momentum_strategy uses it                       *)

\* Pool.starmap's chunksize: ceil(len / (4 * workers))
ChunkSize(len, workers) ==
    IF len = 0 THEN 0
    ELSE (len + (4 * workers) - 1) \div (4 * workers)

NumChunks(len, workers) ==
    IF len = 0 THEN 0
    ELSE (len + ChunkSize(len, workers) - 1) \div ChunkSize(len, workers)

\* the positions of the company list that chunk k covers
ChunkPositions(k, len, workers) ==
    (((k - 1) * ChunkSize(len, workers)) + 1)..Min(k * ChunkSize(len, workers), len)

\* the pool's size once it is created
Workers == processes

\* what a worker sends back for chunk k: the first exception raised in it,
\* or "None"
ChunkRaised(k) ==
    LET pos == ChunkPositions(k, Len(company), Workers)
        bad == {i \in pos : parallel_momentum(company[i], provider[company[i]]).raised # "None"}
    IN  IF bad = {} THEN "None"
        ELSE LET first == CHOOSE i \in bad : \A j \in bad : i <= j
             IN  parallel_momentum(company[first], provider[company[first]]).raised

\* an empty slot of MapResult._value ([None] * length), and a filled one
Empty == [set |-> FALSE]
Slot(r) == [set |-> TRUE, rec |-> r]

\* MapResult._set: chunk k's records go to the positions of its companies
StoreByPosition(val, k) ==
    LET pos == ChunkPositions(k, Len(company), Workers)
    IN  [i \in 1..Len(val) |->
            IF i \in pos
            THEN Slot(parallel_momentum(company[i], provider[company[i]]).rec)
            ELSE val[i]]

\* the records of the chunks ks, chunk after chunk
RECURSIVE ChunkRecords(_)
ChunkRecords(ks) ==
    IF ks = <<>> THEN <<>>
    ELSE LET pos == ChunkPositions(Head(ks), Len(company), Workers)
             lo  == CHOOSE i \in pos : \A j \in pos : i <= j
         IN  [i \in 1..Cardinality(pos) |-> value[lo + i - 1].rec]
                 \o ChunkRecords(Tail(ks))

\* a result list in the order the chunks finished (as imap_unordered gives)
StarmapResultUnordered == ChunkRecords(completed)
\* what pool.starmap returns: the records in the order of the company list
StarmapResult == [i \in 1..Len(value) |-> value[i].rec]

-----------------------------------------------------------------------------
(* Spec: momentum_strategy, and momentum_with_ema_strategy on top of it    *)

Init ==
    /\ InitEmaIdle
    /\ InitIndIdle
    /\ \E n \in 0..MaxCompanies : company \in [1..n -> Names]
    /\ provider \in [Names -> Responses]
    /\ \A c \in Names :
           (\A i \in 1..Len(company) : company[i] # c) => provider[c] = "NotFound"
    /\ pc = "start"
    /\ cpu_count = 0
    /\ top_company_count = 0
    /\ taskq = <<>>
    /\ processes = 0
    /\ running = {}
    /\ value = <<>>
    /\ failure = "None"
    /\ completed = <<>>
    /\ momentum_df = <<>>
    /\ momentum_out = <<>>
    /\ exc = "None"

\* multiprocessing.Pool(multiprocessing.cpu_count() - 1) and the starmap
\* call that queues the chunks; Pool raises ValueError for a size below 1
PoolStart ==
    /\ pc = "start"
    /\ \E n \in 1..MaxCpu :
        /\ cpu_count' = n
        /\ IF n - 1 < 1
           THEN /\ pc' = "aborted"
                /\ exc' = "ValueError"
                /\ UNCHANGED <<taskq, processes, value>>
           ELSE /\ pc' = "pool"
                /\ processes' = n - 1
                /\ taskq' = [k \in 1..NumChunks(Len(company), n - 1) |-> k]
                /\ value' = [i \in 1..Len(company) |-> Empty]
                /\ UNCHANGED exc
    /\ UNCHANGED <<company, provider, top_company_count, running, failure,
                   completed, momentum_df, momentum_out, emaVars, indVars>>

\* an idle worker takes the next chunk off the task queue.  The workers
\* are identical processes: the state records which chunks are being run,
\* not by which of them.
WorkerTake ==
    /\ pc = "pool"
    /\ Cardinality(running) < processes
    /\ taskq # <<>>
    /\ running' = running \cup {Head(taskq)}
    /\ taskq' = Tail(taskq)
    /\ UNCHANGED <<company, provider, pc, cpu_count, top_company_count,
                   processes, value, failure, completed, momentum_df,
                   momentum_out, exc, emaVars, indVars>>

\* a worker finishes chunk k and the result handler stores what it sent:
\* the records while no chunk has failed, else the first exception only
WorkerFinish(k) ==
    /\ pc = "pool"
    /\ k \in running
    /\ LET e == ChunkRaised(k)
       IN  /\ IF e = "None" /\ failure = "None"
              THEN value' = StoreByPosition(value, k)
              ELSE UNCHANGED value
           /\ IF e # "None" /\ failure = "None"
              THEN failure' = e
              ELSE UNCHANGED failure
           /\ completed' = Append(completed, k)
    /\ running' = running \ {k}
    /\ UNCHANGED <<company, provider, pc, cpu_count, top_company_count, taskq,
                   processes, momentum_df, momentum_out, exc, emaVars, indVars>>

AllChunksDone == Len(completed) = NumChunks(Len(company), Workers)

\* starmap re-raises the stored exception: at once in older Pythons, when
\* every chunk is done in newer ones; leaving the with block ends the pool
StarmapRaises ==
    /\ pc = "pool"
    /\ failure # "None"
    /\ pc' = "aborted"
    /\ exc' = failure
    /\ UNCHANGED <<company, provider, cpu_count, top_company_count, taskq,
                   processes, running, value, failure, completed, momentum_df,
                   momentum_out, emaVars, indVars>>

\* starmap returns; DataFrame(result), dropna, sort_values, head(N).  A
\* frame built from an empty list has no return_yearly column to sort by.
Rank ==
    /\ pc = "pool"
    /\ failure = "None"
    /\ AllChunksDone
    /\ IF Len(company) = 0
       THEN /\ pc' = "aborted"
            /\ exc' = "KeyError"
            /\ UNCHANGED <<momentum_df, momentum_out, top_company_count>>
       ELSE /\ momentum_df' = SortValues(DropNa(StarmapResult))
            /\ \E n \in 0..MaxTop :
                   /\ top_company_count' = n
                   /\ momentum_out' = HeadRows(momentum_df', n)
            /\ pc' = "done"
            /\ UNCHANGED exc
    /\ UNCHANGED <<company, provider, cpu_count, taskq, processes, running,
                   value, failure, completed, emaVars, indVars>>

\* momentum_with_ema_strategy, after its momentum_strategy(save=False)
\* returned: Indicator(company_name=...) is a TypeError, since
\* Indicator.__init__ takes `path` only (indicator.py:18); ema_indicator
\* and the merge are not reached
EmaStage ==
    /\ pc = "done"
    /\ pc' = "ema_aborted"
    /\ exc' = "TypeError"
    /\ UNCHANGED <<company, provider, cpu_count, top_company_count, taskq,
                   processes, running, value, failure, completed, momentum_df,
                   momentum_out, emaVars, indVars>>

Next ==
    \/ PoolStart
    \/ WorkerTake
    \/ \E k \in running : WorkerFinish(k)
    \/ StarmapRaises
    \/ Rank
    \/ EmaStage

Spec == Init /\ [][Next]_vars

-----------------------------------------------------------------------------
(* Properties of momentum_strategy                                         *)

Max(a, b) == IF a > b THEN a ELSE b

\* the try block of company number i of the list
TryOf(i) == TryBlock(company[i], provider[company[i]])

\* the records of the whole list, each company evaluated in list order
SequentialRecords ==
    [i \in 1..Len(company) |->
        parallel_momentum(company[i], provider[company[i]]).rec]

\* the records the pool collected
CollectedRecords == [i \in 1..Len(value) |-> value[i].rec]

CountRow(df, r) == Cardinality({i \in 1..Len(df) : df[i] = r})

SameReturn(a, b) ==
    /\ ~GreaterReturn(a.return_yearly, b.return_yearly)
    /\ ~GreaterReturn(b.return_yearly, a.return_yearly)

Ranked == pc \in {"done", "ema_aborted"}

\* C1: the failure of one company's evaluation stays inside its task: no
\* exception is handed to the pool, and when the run is done every company
\* whose evaluation failed is out of the ranking and every other company
\* is in it.
C1_FailureContained ==
    /\ failure = "None"
    /\ pc = "done" =>
           \A i \in 1..Len(company) :
               Count(TableCompanies(momentum_df), company[i])
                   = IF TryOf(i).raised = "None"
                     THEN Count(company, company[i]) ELSE 0

\* C2: the ranked top-N table is the one a sequential evaluation of the
\* list gives, whatever the pool size and the order the workers finish in.
C2_SameTableForEverySchedule ==
    Ranked =>
        momentum_out
            = HeadRows(SortValues(DropNa(SequentialRecords)), top_company_count)

\* two workers finished two chunks out of list order, and the table holds
\* two different companies of equal return
C2_Witness ==
    /\ pc = "done"
    /\ Workers >= 2
    /\ \E j \in 1..(Len(completed) - 1) : completed[j] > completed[j + 1]
    /\ \E i \in 1..(Len(momentum_out) - 1) :
           /\ SameReturn(momentum_out[i], momentum_out[i + 1])
           /\ momentum_out[i].company # momentum_out[i + 1].company

\* C4: the table has min(N, usable records) rows, all of them usable, in
\* non-increasing order of return_yearly, and no usable record left out
\* has a larger return_yearly than a row of the table.
C4_TopNOfUsable ==
    Ranked =>
        LET usable == {i \in 1..Len(value) : NoNa(value[i].rec)}
        IN  /\ Len(momentum_out) = Min(top_company_count, Cardinality(usable))
            /\ \A i \in 1..Len(momentum_out) : NoNa(momentum_out[i])
            /\ \A i \in 1..(Len(momentum_out) - 1) :
                   ~GreaterReturn(momentum_out[i + 1].return_yearly,
                                  momentum_out[i].return_yearly)
            /\ \A u \in usable :
                   CountRow(momentum_out, value[u].rec)
                           < CountRow(CollectedRecords, value[u].rec)
                       => \A i \in 1..Len(momentum_out) :
                              ~GreaterReturn(value[u].rec.return_yearly,
                                             momentum_out[i].return_yearly)

\* a table cut to one row, with a usable record of smaller return left out
\* and an unusable record dropped
C4_Witness ==
    /\ pc = "done"
    /\ top_company_count = 1
    /\ Len(momentum_out) = 1
    /\ \E i \in 1..Len(value) : HasNa(value[i].rec)
    /\ \E i \in 1..Len(value) :
           /\ NoNa(value[i].rec)
           /\ GreaterReturn(momentum_out[1].return_yearly,
                            value[i].rec.return_yearly)

\* C5: rows of equal return_yearly are in ascending order of company name,
\* in the ranking and hence across the top-N cut.
C5_TiesByName ==
    Ranked =>
        \A i, j \in 1..Len(momentum_df) :
            (i < j /\ SameReturn(momentum_df[i], momentum_df[j]))
                => NameRank(momentum_df[i].company)
                       <= NameRank(momentum_df[j].company)

\* C6: with a momentum table to merge, momentum_with_ema_strategy stops
\* without a report only on a cardinality error of the merge, and only when
\* a company occurs twice; without duplicates the merge gives its rows.
C6_MergeOneToOne ==
    (pc = "ema_aborted" /\ momentum_out # <<>>) =>
        /\ exc = "MergeError"
        /\ \E c \in Names : Count(TableCompanies(momentum_out), c) > 1

\* C7: a finished task whose return computation raised ZeroDivisionError
\* has handed back the unusable record, and the error is not the pool's.
C7_DivisionByZeroAbsorbed ==
    /\ failure # "ZeroDivisionError"
    /\ \A j \in 1..Len(completed) :
           \A i \in ChunkPositions(completed[j], Len(company), Workers) :
               TryOf(i).raised = "ZeroDivisionError"
                   => /\ value[i].set
                      /\ value[i].rec = Unusable(company[i])

\* C9: the pool is created with max(1, cpu_count - 1) workers, on a
\* single-core machine too.
C9_PoolHasAWorker ==
    pc # "start" =>
        /\ exc # "ValueError"
        /\ processes = Max(1, cpu_count - 1)

====
